---- MODULE Spec2Model ----
(***************************************************************************)
(* Model of PasswordResetService                                           *)
(* (src/src/password-reset/password-reset.service.ts).                     *)
(*                                                                         *)
(* Concurrent request handlers (Procs) run forgotPassword and              *)
(* resetPassword.  Every `await` of the source is one step of a handler,   *)
(* so the store reads, store writes and mail sends of different handlers   *)
(* interleave in any order.  The store, the user table and the mailer are  *)
(* shared state.                                                           *)
(*                                                                         *)
(* PasswordResetEntity and UserEntity are not part of the sources; the     *)
(* shape of a row, the expiry window and the uniqueness constraint that    *)
(* raises error 23505 are taken from the specification (sections 3, 6).    *)
(***************************************************************************)
EXTENDS Integers, Sequences, FiniteSets, Bags, TLC

\* ---------------------------------------------------------------- bounds
MaxCalls == 3       \* calls started in one behaviour
StartTime == 8      \* the clock at start; the tens digit changes during a run
Horizon == 3        \* ticks of the clock in one behaviour

\* ------------------------------------------------------ program constants
ResetTokenTtl == 2
HmacSecret == 7
DigestModulus == 251

\* ------------------------------------------------------------ value domains
\* two request handlers may be in flight at once
Procs == {1, 2}
UserIds == {1}
\* the address of account 1, and an address that belongs to nobody
Emails == {"u1@example.com", "nobody@example.com"}
EmailOf(u) == "u1@example.com"
\* the values randomBytes(32) may produce
Tokens == {1, 2}
Passwords == {"NewPass1", "NewPass2"}
\* the ids a caller may present: every id assigned so far, and one that is unknown
ResetIds(assigned) == 1..assigned
MaxTime == StartTime + Horizon

NULL == [null |-> TRUE]
InitialPassword == [alg |-> "argon2", of |-> "initial"]

VARIABLES
    now,        \* the wall clock read by DateTime.local()
    users,      \* the users table: id -> [email, password, deletedAt]
    rows,       \* the passwordreset table: set of [id, userId, token, expiredAt]
    nextId,     \* the next id the store assigns to a saved row
    outbox,     \* bag of the mails the mailer accepted
    call,       \* per handler: position, arguments, locals and result
    calls,      \* number of calls started so far
    last,       \* outcome of the call that finished most recently
    minted,     \* history: <<id, plaintext token>> of every row created
    redeemed    \* history: <<id, plaintext token>> of every successful resetPassword

vars == <<now, users, rows, nextId, outbox, call, calls, last, minted, redeemed>>

\* ------------------------------------------------------------ time strings
\* An ISO-8601 timestamp: fixed width, most significant digit first.
toISO(t) == <<t \div 10, t % 10>>

fromISO(s) == s[1] * 10 + s[2]

\* JavaScript's `a > b` on two strings: lexicographic by code unit.
RECURSIVE StrGreater(_, _)
StrGreater(a, b) ==
    IF a = <<>> THEN FALSE
    ELSE IF b = <<>> THEN TRUE
    ELSE IF Head(a) # Head(b) THEN Head(a) > Head(b)
    ELSE StrGreater(Tail(a), Tail(b))

DateTimeLocalToString(t) == toISO(t)

\* ------------------------------------------------------------- token codec
\* the digest without .update(plaintextToken)
hashedToken_NoUpdate(plaintextToken) == HmacSecret % DigestModulus

hashedToken(plaintextToken) == (plaintextToken * HmacSecret) % DigestModulus

\* both arguments are hex digests of the same length
timingSafeEqual(a, b) == a = b

\* the validity check without the comparison of expiredAt
isResetValid_NoExpiry(plaintextToken, reset, t) ==
    timingSafeEqual(hashedToken(plaintextToken), reset.token)

isResetValid(plaintextToken, reset, t) ==
    /\ timingSafeEqual(hashedToken(plaintextToken), reset.token)
    /\ StrGreater(reset.expiredAt, DateTimeLocalToString(t))

hash(password) == [alg |-> "argon2", of |-> password]

\* the link built from the stored digest instead of the plaintext token
url_Digest(resetId, plaintextToken) ==
    [path |-> "/password/reset", id |-> resetId, token |-> hashedToken(plaintextToken)]

url(resetId, plaintextToken) == [path |-> "/password/reset", id |-> resetId, token |-> plaintextToken]

\* ------------------------------------------------------------------ tables
\* a lookup that ignores the address and returns the first account
findOneByEmail_Any(email) ==
    LET u == CHOOSE u \in UserIds : TRUE
    IN [id |-> u, email |-> users[u].email, password |-> users[u].password]

\* userRepository.findOne({ email })
findOneByEmail(email) ==
    IF \E u \in UserIds : users[u].email = email
    THEN LET u == CHOOSE u \in UserIds : users[u].email = email
         IN [id |-> u, email |-> users[u].email, password |-> users[u].password]
    ELSE NULL

\* the query of resetPassword: users.id = :userId AND users.deletedAt IS NULL
findActiveUser(userId) ==
    IF userId \in UserIds /\ users[userId].deletedAt = NULL
    THEN [id |-> userId, email |-> users[userId].email, password |-> users[userId].password]
    ELSE NULL

\* passwordResetRepository.findOne(id)
findOneReset(id) ==
    IF \E r \in rows : r.id = id
    THEN CHOOSE r \in rows : r.id = id
    ELSE NULL

\* a store without the constraint
UniqueViolation_Never(userId, t) == FALSE

\* The store's uniqueness constraint: one unexpired row per account.
UniqueViolation(userId, t) ==
    \E r \in rows : r.userId = userId /\ fromISO(r.expiredAt) > t

\* The error code passwordResetRepository.save(reset) raises, "none" when the
\* row is inserted.  `fault` is a failure of the store unrelated to the data.
saveErrorCode(userId, t, fault) ==
    IF UniqueViolation(userId, t) THEN "23505"
    ELSE IF fault THEN "other"
    ELSE "none"

\* the catch block without the test of err.code
saveException_AlwaysServerError(code) == "ServerError"

\* the catch block reporting every store error as a conflict
saveException_AlwaysConflict(code) == "Conflict"

\* lines 48-54: the catch block of forgotPassword
saveException(code) ==
    IF code = "23505" THEN "Conflict" ELSE "ServerError"

\* ---------------------------------------------------------------- handlers
Idle ==
    [pc |-> "idle", op |-> "none", email |-> "", id |-> 0, token |-> 0,
     password |-> "", user |-> NULL, reset |-> NULL, savedReset |-> NULL,
     replay |-> FALSE]

NoOutcome ==
    [op |-> "none", result |-> "none", cause |-> "none", replay |-> FALSE]

\* A new request is served by the first handler that is not busy; handlers
\* are interchangeable.
Free(p) ==
    /\ call[p].pc = "idle"
    /\ \A q \in Procs : q < p => call[q].pc # "idle"

\* The handler returns (result "Success") or throws: its locals are dropped
\* and the caller sees the outcome.  `cause` names the check of
\* resetPassword that rejected.
Finish(p, c, cause, result) ==
    /\ call' = [call EXCEPT ![p] = Idle]
    /\ last' = [op |-> c.op, result |-> result, cause |-> cause, replay |-> c.replay]

Init ==
    /\ now = StartTime
    /\ users = [u \in UserIds |->
                  [email |-> EmailOf(u), password |-> InitialPassword, deletedAt |-> NULL]]
    /\ rows = {}
    /\ nextId = 1
    /\ outbox = EmptyBag
    /\ call = [p \in Procs |-> Idle]
    /\ calls = 0
    /\ last = NoOutcome
    /\ minted = {}
    /\ redeemed = {}

\* ---- forgotPassword ----
\* lines 29-42: the call; look the account up, then generate the token
ForgotPasswordCall(p, email) ==
    /\ Free(p)
    /\ calls < MaxCalls
    /\ calls' = calls + 1
    /\ LET user == findOneByEmail(email)
           c == [Idle EXCEPT !.op = "forgotPassword", !.email = email]
       IN IF user = NULL
          THEN Finish(p, c, "none", "NotFound")
          ELSE /\ \E token \in Tokens :
                    call' = [call EXCEPT ![p] =
                               [c EXCEPT !.pc = "f_save", !.user = user, !.token = token]]
               /\ UNCHANGED last
    /\ UNCHANGED <<now, users, rows, nextId, outbox, minted, redeemed>>

\* lines 40-54 with reset.token = token, the plaintext
ForgotSave_Plaintext(p) ==
    /\ call[p].pc = "f_save"
    /\ \E fault \in BOOLEAN :
         LET code == saveErrorCode(call[p].user.id, now, fault)
             saved == [id |-> nextId, userId |-> call[p].user.id,
                       token |-> call[p].token,
                       expiredAt |-> toISO(now + ResetTokenTtl)]
         IN IF code = "none"
            THEN /\ rows' = rows \cup {saved}
                 /\ nextId' = nextId + 1
                 /\ minted' = minted \cup {<<saved.id, call[p].token>>}
                 /\ call' = [call EXCEPT ![p].pc = "f_mail", ![p].savedReset = saved]
                 /\ UNCHANGED last
            ELSE /\ Finish(p, call[p], "none", saveException(code))
                 /\ UNCHANGED <<rows, nextId, minted>>
    /\ UNCHANGED <<now, users, outbox, calls, redeemed>>

\* lines 44-54: save the row; map the store's error
ForgotSave(p) ==
    /\ call[p].pc = "f_save"
    /\ \E fault \in BOOLEAN :
         LET code == saveErrorCode(call[p].user.id, now, fault)
             saved == [id |-> nextId, userId |-> call[p].user.id,
                       token |-> hashedToken(call[p].token),
                       expiredAt |-> toISO(now + ResetTokenTtl)]
         IN IF code = "none"
            THEN /\ rows' = rows \cup {saved}
                 /\ nextId' = nextId + 1
                 /\ minted' = minted \cup {<<saved.id, call[p].token>>}
                 /\ call' = [call EXCEPT ![p].pc = "f_mail", ![p].savedReset = saved]
                 /\ UNCHANGED last
            ELSE /\ Finish(p, call[p], "none", saveException(code))
                 /\ UNCHANGED <<rows, nextId, minted>>
    /\ UNCHANGED <<now, users, outbox, calls, redeemed>>

\* lines 56-62 with a compensating delete when the mail fails
ForgotMail_Rollback(p) ==
    /\ call[p].pc = "f_mail"
    /\ \E sent \in BOOLEAN :
         IF sent
         THEN /\ outbox' = outbox (+) SetToBag({[to |-> call[p].email,
                                                 subject |-> "Reset your password",
                                                 text |-> url(call[p].savedReset.id, call[p].token)]})
              /\ Finish(p, call[p], "none", "Success")
              /\ UNCHANGED rows
         ELSE /\ Finish(p, call[p], "none", "MailError")
              /\ rows' = rows \ {call[p].savedReset}
              /\ UNCHANGED outbox
    /\ UNCHANGED <<now, users, nextId, calls, minted, redeemed>>

\* lines 56-62: send the link, then return
ForgotMail(p) ==
    /\ call[p].pc = "f_mail"
    /\ \E sent \in BOOLEAN :
         IF sent
         THEN /\ outbox' = outbox (+) SetToBag({[to |-> call[p].email,
                                                 subject |-> "Reset your password",
                                                 text |-> url(call[p].savedReset.id, call[p].token)]})
              /\ Finish(p, call[p], "none", "Success")
         ELSE /\ Finish(p, call[p], "none", "MailError")
              /\ UNCHANGED outbox
    /\ UNCHANGED <<now, users, rows, nextId, calls, minted, redeemed>>

\* ---- resetPassword ----
\* which check of lines 72-74 rejects, "none" when the row passes
rejection(token, reset, t) ==
    IF reset = NULL THEN "unknownId"
    ELSE IF ~timingSafeEqual(hashedToken(token), reset.token) THEN "digest"
    ELSE IF ~isResetValid(token, reset, t) THEN "expired"
    ELSE "none"

\* lines 65-83 with a NotFound for a row that does not exist
ResetPasswordCall_NotFound(p, id, token, password) ==
    /\ Free(p)
    /\ calls < MaxCalls
    /\ calls' = calls + 1
    /\ LET reset == findOneReset(id)
           c == [Idle EXCEPT !.op = "resetPassword", !.id = id, !.token = token,
                             !.password = password,
                             !.replay = (<<id, token>> \in redeemed)]
       IN IF reset = NULL
          THEN Finish(p, c, "unknownId", "NotFound")
          ELSE IF ~isResetValid(token, reset, now)
          THEN Finish(p, c, rejection(token, reset, now), "InvalidToken")
          ELSE /\ call' = [call EXCEPT ![p] =
                             [c EXCEPT !.pc = "r_findUser", !.reset = reset]]
               /\ UNCHANGED last
    /\ UNCHANGED <<now, users, rows, nextId, outbox, minted, redeemed>>

\* lines 65-74: the call; fetch the row, then check digest and expiry
ResetPasswordCall(p, id, token, password) ==
    /\ Free(p)
    /\ calls < MaxCalls
    /\ calls' = calls + 1
    /\ LET reset == findOneReset(id)
           c == [Idle EXCEPT !.op = "resetPassword", !.id = id, !.token = token,
                             !.password = password,
                             !.replay = (<<id, token>> \in redeemed)]
       IN IF reset = NULL \/ ~isResetValid(token, reset, now)
          THEN Finish(p, c, rejection(token, reset, now), "InvalidToken")
          ELSE /\ call' = [call EXCEPT ![p] =
                             [c EXCEPT !.pc = "r_findUser", !.reset = reset]]
               /\ UNCHANGED last
    /\ UNCHANGED <<now, users, rows, nextId, outbox, minted, redeemed>>

\* lines 75-83 with a clean-up of the account's rows when the account is gone
ResetFindUser_Cleanup(p) ==
    /\ call[p].pc = "r_findUser"
    /\ LET user == findActiveUser(call[p].reset.userId) IN
         IF user = NULL
         THEN /\ Finish(p, call[p], "account", "InvalidToken")
              /\ rows' = {r \in rows : r.userId # call[p].reset.userId}
         ELSE /\ call' = [call EXCEPT ![p].pc = "r_commit", ![p].user = user]
              /\ UNCHANGED <<last, rows>>
    /\ UNCHANGED <<now, users, nextId, outbox, calls, minted, redeemed>>

\* lines 75-83: re-fetch the account, which must not be soft-deleted
ResetFindUser(p) ==
    /\ call[p].pc = "r_findUser"
    /\ LET user == findActiveUser(call[p].reset.userId) IN
         IF user = NULL
         THEN Finish(p, call[p], "account", "InvalidToken")
         ELSE /\ call' = [call EXCEPT ![p].pc = "r_commit", ![p].user = user]
              /\ UNCHANGED last
    /\ UNCHANGED <<now, users, rows, nextId, outbox, calls, minted, redeemed>>

\* lines 85-91 and 102-108: Promise.all of resetUserPassword and the delete
\* query.  The delete query is built (createQueryBuilder().where().delete())
\* but execute() is never called on it, and a query builder is not a promise:
\* Promise.all resolves it at once and no DELETE reaches the store.
\* resetUserPassword hashes on the local user object and then saves it; only
\* the save touches shared state, and it may be rejected by the store.
ResetCommit(p) ==
    /\ call[p].pc = "r_commit"
    /\ \E saved \in BOOLEAN :
         IF saved
         THEN /\ users' = [users EXCEPT ![call[p].user.id].password = hash(call[p].password)]
              /\ call' = [call EXCEPT ![p].pc = "r_mail"]
              /\ UNCHANGED last
         ELSE /\ Finish(p, call[p], "none", "ServerError")
              /\ UNCHANGED users
    /\ UNCHANGED <<now, rows, nextId, outbox, calls, minted, redeemed>>

\* lines 93-99: send the notification, then return
ResetMail(p) ==
    /\ call[p].pc = "r_mail"
    /\ \E sent \in BOOLEAN :
         IF sent
         THEN /\ outbox' = outbox (+) SetToBag({[to |-> call[p].user.email,
                                                 subject |-> "Password reset",
                                                 text |-> "Your password was successfully reset"]})
              /\ redeemed' = redeemed \cup {<<call[p].id, call[p].token>>}
              /\ Finish(p, call[p], "none", "Success")
         ELSE /\ Finish(p, call[p], "none", "MailError")
              /\ UNCHANGED <<outbox, redeemed>>
    /\ UNCHANGED <<now, users, rows, nextId, calls, minted>>

\* ---- environment ----
Tick ==
    /\ now < MaxTime
    /\ now' = now + 1
    /\ UNCHANGED <<users, rows, nextId, outbox, call, calls, last, minted, redeemed>>

\* the user directory soft-deletes an account
SoftDeleteUser(u) ==
    /\ users[u].deletedAt = NULL
    /\ users' = [users EXCEPT ![u].deletedAt = toISO(now)]
    /\ UNCHANGED <<now, rows, nextId, outbox, call, calls, last, minted, redeemed>>

Next ==
    \/ \E p \in Procs, email \in Emails : ForgotPasswordCall(p, email)
    \/ \E p \in Procs : ForgotSave(p)
    \/ \E p \in Procs : ForgotMail(p)
    \/ \E p \in Procs, id \in ResetIds(nextId), token \in Tokens, password \in Passwords :
          ResetPasswordCall(p, id, token, password)
    \/ \E p \in Procs : ResetFindUser(p)
    \/ \E p \in Procs : ResetCommit(p)
    \/ \E p \in Procs : ResetMail(p)
    \/ Tick
    \/ \E u \in UserIds : SoftDeleteUser(u)

Spec == Init /\ [][Next]_vars

TypeOK ==
    /\ now \in StartTime..MaxTime
    /\ calls \in 0..MaxCalls
    /\ nextId \in 1..(MaxCalls + 1)
    /\ \A r \in rows : r.id < nextId /\ r.userId \in UserIds
    /\ \A p \in Procs : call[p].pc \in
         {"idle", "f_save", "f_mail", "r_findUser", "r_commit", "r_mail"}

\* ------------------------------------------------------------------ claims
RowsOf(userId) == {r \in rows : r.userId = userId}

Unexpired(r, t) == fromISO(r.expiredAt) > t

PassedValidation(p) == call[p].pc \in {"r_findUser", "r_commit", "r_mail"}

\* C1: once a resetPassword(id, token, _) call has returned success, a later
\* resetPassword call with the same id and token never reaches the point
\* where it has changed the password, and it ends with InvalidToken.
C1_ReplayFails ==
    /\ \A p \in Procs : call[p].replay => call[p].pc # "r_mail"
    /\ last.replay => last.result = "InvalidToken"

\* C2: two resetPassword calls that are in flight at the same time with the
\* same id and token, neither started after a success of the other, never
\* both change the password.
C2_OneConcurrentRedemption ==
    \A p, q \in Procs :
        (/\ p # q
         /\ call[p].pc = "r_mail" /\ call[q].pc = "r_mail"
         /\ call[p].id = call[q].id /\ call[p].token = call[q].token
         /\ ~call[p].replay /\ ~call[q].replay) => FALSE

\* C3: in the state in which a resetPassword call returns success, no
\* ResetRequest row of the account remains in the store.
C3_SuccessLeavesNoRows ==
    [][\A p \in Procs :
          (call[p].pc = "r_mail" /\ call'[p].pc = "idle" /\ last'.result = "Success")
             => {r \in rows' : r.userId = call[p].user.id} = {}]_vars

\* C4: in every reachable state each account has at most one unexpired
\* ResetRequest in the store.
C4_AtMostOneActive ==
    \A u \in UserIds : Cardinality({r \in RowsOf(u) : Unexpired(r, now)}) <= 1

\* C4 witness: an account with an expired row and, next to it, one active row.
C4_Witness ==
    \E r1, r2 \in RowsOf(1) : ~Unexpired(r1, now) /\ Unexpired(r2, now)

\* C5: when forgotPassword attempts to create the row while the account has
\* an unexpired ResetRequest, the call ends with Conflict, the table is left
\* as it was, and no email is sent.
C5_PendingYieldsConflict ==
    [][\A p \in Procs :
          (/\ call[p].pc = "f_save" /\ call'[p] # call[p]
           /\ \E r \in RowsOf(call[p].user.id) : Unexpired(r, now))
             => /\ call'[p].pc = "idle"
                /\ last'.op = "forgotPassword" /\ last'.result = "Conflict"
                /\ rows' = rows
                /\ outbox' = outbox]_vars

\* C5 witness: a forgotPassword call has ended with Conflict while the
\* account's pending row is still there and unexpired.
C5_Witness ==
    /\ last.op = "forgotPassword" /\ last.result = "Conflict"
    /\ \E r \in RowsOf(1) : Unexpired(r, now)

\* C6: a resetPassword call passes validation only while the row's expiry
\* instant is strictly in the future; a call whose token matches the stored
\* digest but whose row has expired ends with InvalidToken and leaves the
\* users table as it was.
C6_ExpiredNeverRedeems ==
    [][/\ \A p \in Procs :
            (call[p].pc = "idle" /\ call'[p].pc = "r_findUser")
               => Unexpired(call'[p].reset, now)
       /\ (calls' # calls /\ last'.cause = "expired")
               => (last'.result = "InvalidToken" /\ users' = users)]_vars

\* C6 witness: a call presenting the issued token was rejected for expiry.
C6_Witness ==
    /\ last.op = "resetPassword" /\ last.cause = "expired"
    /\ last.result = "InvalidToken"
    /\ \E r \in rows : ~Unexpired(r, now)

\* C7: verifying t' against the digest of t succeeds exactly when t' = t, and
\* a resetPassword call passes validation (the only way to the password
\* change) only with the token that was issued for the presented id.
C7_OnlyIssuedTokenRedeems ==
    /\ \A t, t2 \in Tokens :
          timingSafeEqual(hashedToken(t2), hashedToken(t)) <=> (t2 = t)
    /\ \A p \in Procs : PassedValidation(p) => <<call[p].id, call[p].token>> \in minted

\* C7 witness: a call with a wrong token was rejected on the digest, and a
\* call with the issued token has changed the password.
C7_Witness ==
    /\ last.cause = "digest" /\ last.result = "InvalidToken"
    /\ \E p \in Procs : call[p].pc = "r_mail" /\ <<call[p].id, call[p].token>> \in minted

\* C8: each of the four validation failures of resetPassword (unknown id,
\* digest mismatch, expired request, account missing or soft-deleted) ends
\* the call with InvalidToken and with no other error.
C8_OneValidationError ==
    /\ last.cause \in {"unknownId", "digest", "expired", "account"}
          => (last.op = "resetPassword" /\ last.result = "InvalidToken")
    /\ (last.op = "resetPassword" /\ last.result \notin {"Success", "MailError", "ServerError"})
          => last.result = "InvalidToken"

\* C8 witness: a call with an unknown id has ended with InvalidToken.
C8_Witness ==
    /\ last.op = "resetPassword" /\ last.cause = "unknownId"
    /\ last.result = "InvalidToken"

\* C9: when resetPassword is about to send the confirmation email, the
\* redeemed ResetRequest has been deleted from the store.
C9_ConfirmedAfterDeletion ==
    \A p \in Procs : call[p].pc = "r_mail" => findOneReset(call[p].id) = NULL

\* C10: a step in which the mail of forgotPassword or of resetPassword fails
\* changes neither the passwordreset table nor the users table; the row
\* created by the failing forgotPassword is still in the store.
C10_MailFailureKeepsChange ==
    [][\A p \in Procs :
          (call[p].pc \in {"f_mail", "r_mail"} /\ call'[p].pc = "idle"
           /\ last'.result = "MailError")
             => /\ rows' = rows
                /\ users' = users
                /\ call[p].pc = "f_mail" => call[p].savedReset \in rows']_vars

\* C10 witness: the mail of forgotPassword failed (nothing was ever sent) and
\* its row is in the store; the mail of resetPassword failed and the account
\* has the new password.
C10_Witness ==
    /\ last.op = "resetPassword" /\ last.result = "MailError"
    /\ outbox = EmptyBag
    /\ rows # {}
    /\ users[1].password \in {hash(pw) : pw \in Passwords}

ResetLinks == {m \in BagToSet(outbox) : m.subject = "Reset your password"}

\* C11: a forgotPassword call goes on to create a row only when its email
\* belongs to an account; the step in which a call ends with NotFound (the
\* call is over at once) leaves the passwordreset table and the mailer
\* untouched.
C11_UnknownEmailNotFound ==
    [][/\ \A p \in Procs :
            (call[p].pc = "idle" /\ call'[p].pc = "f_save")
               => \E u \in UserIds : users[u].email = call'[p].email
       /\ (/\ calls' # calls /\ call' = call
           /\ last'.op = "forgotPassword" /\ last'.result = "NotFound")
               => (rows' = rows /\ outbox' = outbox /\ nextId' = nextId)]_vars

\* C11 witness: a call with an unknown address has ended with NotFound, with
\* no row in the store and no mail sent.
C11_Witness ==
    /\ last.op = "forgotPassword" /\ last.result = "NotFound"
    /\ rows = {} /\ outbox = EmptyBag

\* C12: a forgotPassword call that saves its row adds exactly one row, for an
\* account with no unexpired row; when it then returns success it has sent
\* exactly one email, to the account's address, after the row was committed,
\* and the id and token of the link are those of a stored row holding the
\* digest of that token, which isResetValid accepts until the row expires.
C12_OneRowOneMail ==
    [][\A p \in Procs :
          /\ (call[p].pc = "f_save" /\ call'[p].pc = "f_mail")
                => /\ \A r \in RowsOf(call[p].user.id) : ~Unexpired(r, now)
                   /\ Cardinality(rows') = Cardinality(rows) + 1
                   /\ rows \subseteq rows'
                   /\ outbox' = outbox
          /\ (call[p].pc = "f_mail" /\ call'[p].pc = "idle" /\ last'.result = "Success")
                => /\ rows' = rows
                   /\ \E m \in ResetLinks' :
                        /\ outbox' = outbox (+) SetToBag({m})
                        /\ CopiesIn(m, outbox') = 1
                        /\ m.to = users[call[p].user.id].email
                        /\ \E r \in rows :
                             /\ r.id = m.text.id
                             /\ r.userId = call[p].user.id
                             /\ r.token = hashedToken(m.text.token)
                             /\ \A t \in StartTime..MaxTime :
                                  Unexpired(r, t) => isResetValid(m.text.token, r, t)]_vars

\* C12 witness: a forgotPassword call has returned success; one link is in
\* the outbox and the row of its id is in the store.
C12_Witness ==
    /\ last.op = "forgotPassword" /\ last.result = "Success"
    /\ Cardinality(rows) = 1
    /\ \E m \in ResetLinks : \E r \in rows : r.id = m.text.id /\ Unexpired(r, now)

\* C13: a ResetRequest that has been redeemed is never pending again: no row
\* of the store would still pass isResetValid with the id and token of a
\* successful redemption.
C13_RedeemedIsTerminal ==
    \A pair \in redeemed :
        ~\E r \in rows : r.id = pair[1] /\ isResetValid(pair[2], r, now)

\* C14: the token field of every stored row is the keyed digest of the token
\* generated for it and is not that plaintext; the token of every emailed
\* link is the plaintext generated for the row of its id.
C14_NoPlaintextStored ==
    /\ \A r \in rows :
          \E t \in Tokens :
             /\ <<r.id, t>> \in minted
             /\ r.token = hashedToken(t)
             /\ r.token # t
    /\ \A m \in ResetLinks : <<m.text.id, m.text.token>> \in minted

\* C14 witness: a row is stored and its link has been mailed.
C14_Witness ==
    \E r \in rows : \E m \in ResetLinks :
        m.text.id = r.id /\ r.token = hashedToken(m.text.token)

\* C15: when the save of forgotPassword is rejected although the account has
\* no unexpired row, the call ends with ServerError, and that step adds no
\* row, assigns no id and sends no email.
C15_StoreFailureIsServerError ==
    [][\A p \in Procs :
          (/\ call[p].pc = "f_save" /\ call'[p].pc = "idle"
           /\ ~\E r \in RowsOf(call[p].user.id) : Unexpired(r, now))
             => /\ last'.op = "forgotPassword" /\ last'.result = "ServerError"
                /\ rows' = rows
                /\ nextId' = nextId
                /\ outbox' = outbox]_vars

\* C15 witness: a forgotPassword call has ended with ServerError; the store
\* holds no row and nothing was mailed.
C15_Witness ==
    /\ last.op = "forgotPassword" /\ last.result = "ServerError"
    /\ rows = {} /\ outbox = EmptyBag

Mailed(r) == \E m \in ResetLinks : m.text.id = r.id

\* C16: when the mail of forgotPassword fails, the caller gets the error and
\* the saved row is still in the store, where it blocks the account for as
\* long as it is unexpired; a forgotPassword that attempts its save while
\* an unexpired row whose link was never mailed exists ends with Conflict
\* and creates nothing.
C16_UnmailedRowBlocks ==
    [][\A p \in Procs :
          /\ (call[p].pc = "f_mail" /\ call'[p].pc = "idle" /\ outbox' = outbox)
                => /\ last'.op = "forgotPassword" /\ last'.result = "MailError"
                   /\ call[p].savedReset \in rows'
                   /\ \A t \in StartTime..MaxTime :
                        Unexpired(call[p].savedReset, t)
                           => \E r \in rows' :
                                 r.userId = call[p].user.id /\ Unexpired(r, t)
          /\ (/\ call[p].pc = "f_save" /\ call'[p] # call[p]
              /\ \E r \in RowsOf(call[p].user.id) : Unexpired(r, now) /\ ~Mailed(r))
                => /\ call'[p].pc = "idle"
                   /\ last'.result = "Conflict"
                   /\ rows' = rows]_vars

\* C16 witness: the mail of the first forgotPassword failed (nothing was ever
\* sent), its row is in the store, and a further forgotPassword has ended
\* with Conflict.
C16_Witness ==
    /\ last.op = "forgotPassword" /\ last.result = "Conflict"
    /\ outbox = EmptyBag
    /\ redeemed = {}
    /\ \E r \in rows : Unexpired(r, now) /\ ~Mailed(r)

\* C17: once a resetPassword has succeeded and every unexpired row of the
\* account is a redeemed one, a forgotPassword that attempts its save does
\* not end with Conflict.
C17_ForgotAfterResetSucceeds ==
    [][\A p \in Procs :
          (/\ call[p].pc = "f_save" /\ call'[p].pc = "idle"
           /\ redeemed # {}
           /\ \A r \in RowsOf(call[p].user.id) :
                 Unexpired(r, now) => \E t \in Tokens : <<r.id, t>> \in redeemed)
             => last'.result # "Conflict"]_vars

\* C18: when a resetPassword call ends in an error after it passed the first
\* checks, it has changed the password exactly if no ResetRequest row of the
\* account remains.
C18_FailedResetAllOrNothing ==
    [][\A p \in Procs :
          (/\ call[p].op = "resetPassword" /\ call'[p].pc = "idle"
           /\ last'.result # "Success")
             => ((call[p].pc = "r_mail")
                   <=> ({r \in rows' : r.userId = call[p].reset.userId} = {}))]_vars

\* C19: the steps in which resetPassword validates (the fetch of the row with
\* the digest and expiry checks, and the fetch of the account) change neither
\* the users table nor the passwordreset table nor the outbox, whether the
\* call is rejected with InvalidToken or goes on.
C19_ValidationChangesNothing ==
    [][(\/ (calls' # calls /\ call' = call /\ last'.op = "resetPassword")
        \/ \E p \in Procs :
              \/ (call[p].pc = "idle" /\ call'[p].pc = "r_findUser")
              \/ (call[p].pc = "r_findUser" /\ call'[p] # call[p]))
          => (users' = users /\ rows' = rows /\ outbox' = outbox)]_vars

\* C19 witness: a call was rejected because the account is soft-deleted; the
\* row is still stored and the password is the initial one.
C19_Witness ==
    /\ last.op = "resetPassword" /\ last.result = "InvalidToken"
    /\ last.cause = "account"
    /\ rows # {}
    /\ users[1].password = InitialPassword

====
